---- MODULE Spec2Model ----
(***************************************************************************)
(* Model of the metrics collector (app_collector.py), the agent            *)
(* (app_agent.py) and the message classes (zmq_msg_core.py,                 *)
(* zmq_msg_metrics.py).                                                     *)
(*                                                                          *)
(* Time is a wall clock in seconds.  Every handler runs to completion on    *)
(* the single-threaded event loop, so one handler is one action.  A Python  *)
(* exception raised inside a handler ends the handler at that statement:    *)
(* the assignments made before it stay, the statements after it do not run, *)
(* and the event loop goes on with the next event (what the loop does with  *)
(* an exception of a callback is decided by the event-loop library, which   *)
(* is not part of the sources).  The name of the exception is kept in the   *)
(* step record (last.err / alast.err).                                      *)
(*                                                                          *)
(* The specifications share Init.  Spec is the collector serving agent      *)
(* connections, ClientSpec the collector serving client connections and one *)
(* agent connection, AgentSpec (AgentFairSpec) the agent process; in these  *)
(* the frames come from the environment and a sweep runs at any time.       *)
(* SysSpec joins the collector and the agent process by the two directions  *)
(* of the agent connection, with every timer on its period; StreamSpec adds *)
(* a stream of Metrics frames; TimedClientSpec is the collector with timed  *)
(* sweeps serving clients.  RecvSpec runs the three receive handlers side   *)
(* by side, HostSpec is one agent connection reporting several hostnames.   *)
(* CodecSpec puts message objects through msg and from_msg.                 *)
(***************************************************************************)
EXTENDS Integers, Sequences, FiniteSets

\* ------------------------------------------------------------------ bounds
\* The clock runs from 0 to MaxTime in steps of TickStep seconds.
MaxTime == 40
TickStep == 5
CoarseTickStep == 10
\* The clock's step where the three receive handlers run side by side.
RecvTickStep == 20
\* At most MaxQueue streamed frames wait at the collector's agent socket.
MaxQueue == 2

\* Transport identities of agent connections, of client connections, and
\* the hostnames and grids that Metrics frames carry.
AgentConns == {"a1", "a2"}
ClientConns == {"c1", "c2"}
Hostnames == {"h1", "h2"}
MetricKeys == {"load", "mem"}
MaxSample == 1

\* ------------------------------------------------------- program constants
\* AppCollector.stale_interval, AppCollector.ping_interval (seconds)
stale_interval == 30
ping_interval == 20
\* the debounce window of AgentDealerConnection.on_recv, timedelta(seconds=5)
model_request_window == 5
\* AppCollector.agent_interval_ms // 1000 and AppCollector.client_interval_ms // 1000
agent_interval == 15
client_interval == 5
\* AppAgent.stale_interval_ms // 1000 and AppAgent.metrics_interval_ms // 1000
stale_interval_timedelta == 10
metrics_interval == 1

\* Python's None for a datetime attribute that is not set yet.
None == -1

\* ------------------------------------------------------------------- state
VARIABLES
    identities,            \* CollectorMetricRouterListener.identities: conn_id -> last receive
    hostname_to_conn_id,   \* CollectorMetricRouterListener.hostname_to_conn_id
    model_data,            \* AppCollector.model_data: hostname -> MetricsMessage
    client_identities,     \* CollectorClientRouterListener.identities
    identities_last_send,  \* CollectorClientRouterListener.identities_last_send
    now,                   \* datetime.utcnow()
    recv_at,               \* history: when the last frame of each agent connection arrived
    last,                  \* history: what the last collector handler did
    last_collector_msg_on, \* AppAgent.last_collector_msg_on
    received_model_request,\* AppAgent.received_model_request
    periodic_metrics,      \* AppAgent.periodic_metrics: is it running, when is it due
    periodic_stale,        \* AppAgent.periodic_stale: is it running, when is it due
    pc,                    \* where AppAgent.run_forever stands
    alast,                 \* history: what the last agent handler did
    first_metrics_kind,    \* history: the kind of the first Metrics message the agent sent
    periodic_agent,        \* AppCollector.periodic_agent: is it running, when is it due
    periodic_client,       \* AppCollector.periodic_client: is it running, when is it due
    to_collector,          \* frames the agent has sent that the collector has not read yet
    to_agent,              \* frames the collector has sent that the agent has not read yet
    codec                  \* a message object on its way through msg and from_msg

collector_vars == <<identities, hostname_to_conn_id, model_data, client_identities,
                    identities_last_send, recv_at, last>>
agent_vars == <<last_collector_msg_on, received_model_request, periodic_metrics,
                periodic_stale, pc, alast, first_metrics_kind>>
vars == <<identities, hostname_to_conn_id, model_data, client_identities,
          identities_last_send, now, recv_at, last, last_collector_msg_on,
          received_model_request, periodic_metrics, periodic_stale, pc, alast,
          first_metrics_kind, periodic_agent, periodic_client, to_collector,
          to_agent, codec>>
\* The collector's timers, the two directions of the agent connection and the
\* codec bench: what the handlers themselves do not hold.
aux_vars == <<periodic_agent, periodic_client, to_collector, to_agent, codec>>

\* ------------------------------------------------------------ Python dicts
EmptyDict == [k \in {} |-> 0]
Put(d, k, v) == [x \in DOMAIN d \cup {k} |-> IF x = k THEN v ELSE d[x]]
Del(d, k) == [x \in DOMAIN d \ {k} |-> d[x]]

\* The order in which a for loop visits the keys of a dict.
RECURSIVE IterationOrder(_)
IterationOrder(S) ==
    IF S = {} THEN <<>>
    ELSE LET x == CHOOSE y \in S : TRUE IN <<x>> \o IterationOrder(S \ {x})

\* ----------------------------------------------------------------- messages
ControlMessage_header == "CTRL"
MetricsMessage_header == "METR"

\* What a call returns when the callee hands back None.
NoneObj == [cls |-> "NoneType"]

\* json.dumps of a dict of numbers: the text lists the items as the dict yields
\* them.  A str and its UTF-8 bytes are one value here.
json_dumps(d) ==
    LET order == IterationOrder(DOMAIN d) IN
    [i \in 1..Len(order) |-> <<order[i], d[order[i]]>>]

\* json.loads: the dict of the items of the text; of two items with one key
\* the later one stays.
json_loads(text) ==
    [k \in {text[i][1] : i \in 1..Len(text)} |->
        text[CHOOSE i \in 1..Len(text) :
                 /\ text[i][1] = k
                 /\ \A j \in 1..Len(text) : text[j][1] = k => j <= i][2]]

\* The grids a Metrics frame carries on the wire, as JSON text.
Grids == {json_dumps(EmptyDict)}

\* ControlMessage.msg: [header, message]
ControlMessage_msg(message) == <<ControlMessage_header, message>>

\* ControlMessage.from_msg
ControlMessage_from_msg(msg) ==
    IF Len(msg) # 2 \/ msg[1] # ControlMessage_header
    THEN NoneObj
    ELSE [cls |-> "ControlMessage", message |-> msg[2]]

\* MetricsMessage.msg: [header, hostname, json grid]
MetricsMessage_msg(obj) ==
    <<MetricsMessage_header, obj.hostname, json_dumps(obj.grid_dict)>>

\* Mutant: four frames are read, and the object gets the kind as metrics_type.
MetricsMessage_from_msg_WithKind(msg) ==
    IF Len(msg) # 4 \/ msg[1] # MetricsMessage_header
    THEN NoneObj
    ELSE [cls |-> "MetricsMessage", hostname |-> msg[2], grid_dict |-> json_loads(msg[3]),
          metrics_type |-> msg[4]]

\* MetricsMessage.from_msg: three frames; the object gets hostname and grid_dict
\* and no other attribute.
MetricsMessage_from_msg(msg) ==
    IF Len(msg) # 3 \/ msg[1] # MetricsMessage_header
    THEN NoneObj
    ELSE [cls |-> "MetricsMessage", hostname |-> msg[2], grid_dict |-> json_loads(msg[3])]

\* getattr: reading an attribute the object does not have raises AttributeError.
HasAttr(obj, name) == name \in DOMAIN obj

\* MultiPartMessage.send(socket, identity): one send_multipart on the socket,
\* with the identity frame first when one is given.
Send(socket, identity, frames) == [socket |-> socket, to |-> identity, frames |-> frames]


\* The sockets of the collector; anything else has no send_multipart.
IsSocket(x) == x \in {"listen_agents.server", "listen_clients.server"}

\* -------------------------------------------------- collector: agent side
\* on_recv, lines 76-86: the connection a hostname was last seen on, when it
\* is another one than conn_id ("none" otherwise).
OldConnId(htc, hostname, conn_id) ==
    IF hostname \in DOMAIN htc /\ htc[hostname] # conn_id THEN htc[hostname] ELSE "none"

\* Mutant: the old connection is kept.
ExpireOldConn_Keep(ids, old_conn_id) == ids

\* on_recv, lines 80-82: the old connection is expired.
ExpireOldConn(ids, old_conn_id) ==
    IF old_conn_id \in DOMAIN ids THEN Del(ids, old_conn_id) ELSE ids

\* on_recv, lines 76-86: identities after the reconciliation.
ReconcileIdentities(ids, htc, hostname, conn_id) ==
    IF hostname \in DOMAIN htc
    THEN IF htc[hostname] # conn_id
         THEN ExpireOldConn(ids, htc[hostname])
         ELSE ids
    ELSE ids

\* on_recv, lines 76-86: hostname_to_conn_id after the reconciliation.
ReconcileHostname(htc, hostname, conn_id) ==
    IF hostname \in DOMAIN htc
    THEN IF htc[hostname] # conn_id
         THEN [htc EXCEPT ![hostname] = conn_id]
         ELSE htc
    ELSE Put(htc, hostname, conn_id)

\* AppCollector.record_model_data
record_model_data(md, msg_obj) == Put(md, msg_obj.hostname, msg_obj)

\* AppCollector.relay_metrics_to_clients: the loop over the clients.  Each
\* turn calls msg_obj.send(client_conn_id): the connection id is passed where
\* send() expects the socket, and send() calls socket.send_multipart.
RECURSIVE RelayLoop(_, _, _, _)
RelayLoop(todo, msg_obj, acc, t) ==
    IF todo = <<>> THEN acc
    ELSE LET client_conn_id == Head(todo) IN
         IF ~IsSocket(client_conn_id)
         THEN [acc EXCEPT !.err = "AttributeError"]
         ELSE RelayLoop(Tail(todo), msg_obj,
                        [acc EXCEPT !.sends = Append(@, Send(client_conn_id, "none",
                                                            MetricsMessage_msg(msg_obj))),
                                    !.last_send = Put(@, client_conn_id, t)],
                        t)

relay_metrics_to_clients(msg_obj, cids, ils, t) ==
    RelayLoop(IterationOrder(DOMAIN cids), msg_obj,
              [sends |-> <<>>, last_send |-> ils, err |-> "none"], t)

\* What a collector handler leaves behind when nothing after the liveness
\* touch has run yet.
Effect(ids) ==
    [identities |-> ids,
     hostname_to_conn_id |-> hostname_to_conn_id,
     model_data |-> model_data,
     identities_last_send |-> identities_last_send,
     old_conn_id |-> "none",
     sends |-> <<>>,
     relayed |-> <<>>,
     err |-> "none"]

\* on_recv, lines 88-107: the part after the reconciliation.
MetricsDispatch(eff, msg_obj, conn_id, t) ==
    IF ~HasAttr(msg_obj, "metrics_type")
    THEN [eff EXCEPT !.err = "AttributeError"]
    ELSE LET cached == IF msg_obj.metrics_type = "model"
                       THEN record_model_data(eff.model_data, msg_obj)
                       ELSE eff.model_data
             request == IF msg_obj.metrics_type # "model"
                           /\ msg_obj.hostname \notin DOMAIN eff.model_data
                        THEN <<Send("listen_agents.server", conn_id,
                                    ControlMessage_msg("model"))>>
                        ELSE <<>>
             relay == relay_metrics_to_clients(msg_obj, client_identities,
                                               eff.identities_last_send, t)
         IN [eff EXCEPT !.model_data = cached,
                        !.identities_last_send = relay.last_send,
                        !.sends = request \o relay.sends,
                        !.relayed = <<msg_obj>>,
                        !.err = relay.err]

\* Mutant: a hello is taken in without a reply.
ControlDispatch_HelloUnanswered(eff, msg_obj, conn_id) ==
    IF ~HasAttr(msg_obj, "message")
    THEN [eff EXCEPT !.err = "AttributeError"]
    ELSE IF msg_obj.message = "hello"
    THEN eff
    ELSE [eff EXCEPT !.err = "TypeError"]

\* on_recv, lines 109-118: a control message.  Line 118 formats a string of
\* two %s with the single argument msg_obj.message.
ControlDispatch(eff, msg_obj, conn_id) ==
    IF ~HasAttr(msg_obj, "message")
    THEN [eff EXCEPT !.err = "AttributeError"]
    ELSE IF msg_obj.message = "hello"
    THEN [eff EXCEPT !.sends = <<Send("listen_agents.server", conn_id,
                                      ControlMessage_msg("model"))>>]
    ELSE [eff EXCEPT !.err = "TypeError"]

\* Mutant: only a connection not seen before is recorded.
Touch_OnlyNew(ids, conn_id, t) == IF conn_id \in DOMAIN ids THEN ids ELSE Put(ids, conn_id, t)

\* The liveness touch of line 65.
Touch(ids, conn_id, t) == Put(ids, conn_id, t)

\* CollectorMetricRouterListener.on_recv(msg), msg = [conn_id] + frames
AgentOnRecvEffect(msg, t) ==
    LET conn_id == msg[1]
        ids1 == Touch(identities, conn_id, t)
    IN  IF msg[2] = MetricsMessage_header
        THEN LET msg_obj == MetricsMessage_from_msg(Tail(msg)) IN
             IF ~HasAttr(msg_obj, "hostname")
             THEN [Effect(ids1) EXCEPT !.err = "AttributeError"]
             ELSE LET h == msg_obj.hostname
                      eff == [Effect(ids1) EXCEPT
                                 !.old_conn_id = OldConnId(hostname_to_conn_id, h, conn_id),
                                 !.identities = ReconcileIdentities(ids1, hostname_to_conn_id,
                                                                    h, conn_id),
                                 !.hostname_to_conn_id = ReconcileHostname(hostname_to_conn_id,
                                                                           h, conn_id)]
                  IN MetricsDispatch(eff, msg_obj, conn_id, t)
        ELSE IF msg[2] = ControlMessage_header
        THEN ControlDispatch(Effect(ids1), ControlMessage_from_msg(Tail(msg)), conn_id)
        ELSE Effect(ids1)

\* The frames an agent connection can deliver: well-formed Metrics messages,
\* Metrics messages with a fourth frame, control messages, a control message
\* of the wrong arity and a message of an unknown tag.
AgentFrames ==
    {<<MetricsMessage_header, h, g>> : h \in Hostnames, g \in Grids}
    \cup {<<MetricsMessage_header, h, g, k>> :
             h \in Hostnames, g \in Grids, k \in {"model", "metrics"}}
    \cup {ControlMessage_msg(m) : m \in {"hello", "ping"}}
    \cup {<<ControlMessage_header>>, <<"XXXX", "x">>}

AgentOnRecv(conn_id, frames) ==
    LET eff == AgentOnRecvEffect(<<conn_id>> \o frames, now) IN
    /\ identities' = eff.identities
    /\ hostname_to_conn_id' = eff.hostname_to_conn_id
    /\ model_data' = eff.model_data
    /\ identities_last_send' = eff.identities_last_send
    /\ recv_at' = [recv_at EXCEPT ![conn_id] = now]
    /\ last' = [op |-> "agent_on_recv", conn |-> conn_id, msg |-> frames,
                old_conn_id |-> eff.old_conn_id, to_remove |-> {},
                sends |-> eff.sends, relayed |-> eff.relayed, err |-> eff.err]
    /\ UNCHANGED <<client_identities, now>>
    /\ UNCHANGED agent_vars


\* ------------------------------------------------- collector: client side
\* AppCollector.send_cached_model_data_to_client: one send per cached model,
\* each followed by the update of identities_last_send.
RECURSIVE CachedModelLoop(_, _, _, _, _)
CachedModelLoop(todo, md, client_conn_id, acc, t) ==
    IF todo = <<>> THEN acc
    ELSE CachedModelLoop(Tail(todo), md, client_conn_id,
                         [acc EXCEPT !.sends = Append(@, Send("listen_clients.server",
                                                             client_conn_id,
                                                             MetricsMessage_msg(md[Head(todo)]))),
                                     !.last_send = Put(@, client_conn_id, t)],
                         t)

send_cached_model_data_to_client(md, ils, client_conn_id, t) ==
    CachedModelLoop(IterationOrder(DOMAIN md), md, client_conn_id,
                    [sends |-> <<>>, last_send |-> ils], t)

\* on_recv, line 145: the test made on a hello, after line 140 has put the
\* client into identities.
IsNewClient(cids, client_conn_id) == client_conn_id \notin DOMAIN cids

\* CollectorClientRouterListener.on_recv(msg), msg = [client_conn_id] + frames
ClientOnRecvEffect(msg, t) ==
    LET client_conn_id == msg[1]
        cids1 == Put(client_identities, client_conn_id, t)
        quiet == [client_identities |-> cids1,
                  identities_last_send |-> identities_last_send,
                  sends |-> <<>>, err |-> "none"]
    IN  IF msg[2] = ControlMessage_header
        THEN LET msg_obj == ControlMessage_from_msg(Tail(msg)) IN
             IF ~HasAttr(msg_obj, "message")
             THEN [quiet EXCEPT !.err = "AttributeError"]
             ELSE IF msg_obj.message = "hello" /\ IsNewClient(cids1, client_conn_id)
             THEN LET r == send_cached_model_data_to_client(model_data, identities_last_send,
                                                            client_conn_id, t)
                  IN [quiet EXCEPT !.identities_last_send = r.last_send,
                                   !.sends = r.sends]
             ELSE quiet
        ELSE quiet

\* The frames a client connection can deliver.
ClientFrames ==
    {ControlMessage_msg(m) : m \in {"hello", "ping"}}
    \cup {<<ControlMessage_header>>, <<"XXXX", "x">>}

ClientOnRecv(client_conn_id, frames) ==
    LET eff == ClientOnRecvEffect(<<client_conn_id>> \o frames, now) IN
    /\ client_identities' = eff.client_identities
    /\ identities_last_send' = eff.identities_last_send
    /\ last' = [op |-> "client_on_recv", conn |-> client_conn_id, msg |-> frames,
                old_conn_id |-> "none", to_remove |-> {},
                sends |-> eff.sends, relayed |-> <<>>, err |-> eff.err]
    /\ UNCHANGED <<identities, hostname_to_conn_id, model_data, recv_at, now>>
    /\ UNCHANGED agent_vars

\* Mutant: remove_client without its lines 151-152.
RemoveClients_KeepsLastSend(reg, todo) ==
    [client_identities |->
         [c \in DOMAIN reg.client_identities \ {todo[i] : i \in 1..Len(todo)} |->
             reg.client_identities[c]],
     identities_last_send |-> reg.identities_last_send]

\* CollectorClientRouterListener.remove_client, for every client of to_remove
RECURSIVE RemoveClients(_, _)
RemoveClients(reg, todo) ==
    IF todo = <<>> THEN reg
    ELSE LET c == Head(todo) IN
         RemoveClients([client_identities |-> Del(reg.client_identities, c),
                        identities_last_send |->
                            IF c \in DOMAIN reg.identities_last_send
                            THEN Del(reg.identities_last_send, c)
                            ELSE reg.identities_last_send],
                       Tail(todo))

\* Mutant: a peer is stale as soon as its age reaches the window.
IsStale_AtWindow(utc_now, last_seen) == (utc_now - last_seen) >= stale_interval

\* The staleness test of both sweeps (lines 239 and 266).
IsStale(utc_now, last_seen) == (utc_now - last_seen) > stale_interval

\* Mutant: every client that is not stale is pinged at every sweep.
NeedsPing_Always(ils, client_conn_id, utc_now) == TRUE

\* Mutant: a client is pinged when it has been idle for the stale window.
NeedsPing_AtStaleWindow(ils, client_conn_id, utc_now) ==
    \/ client_conn_id \notin DOMAIN ils
    \/ (utc_now - ils[client_conn_id]) > stale_interval

\* client_periodictask, lines 244-245: does this client get a ping?
NeedsPing(ils, client_conn_id, utc_now) ==
    \/ client_conn_id \notin DOMAIN ils
    \/ (utc_now - ils[client_conn_id]) > ping_interval

\* AppCollector.client_periodictask
client_periodictask ==
    LET utc_now == now
        order == IterationOrder(DOMAIN client_identities)
        to_remove == SelectSeq(order, LAMBDA c : IsStale(utc_now, client_identities[c]))
        pinged == SelectSeq(order, LAMBDA c : /\ ~IsStale(utc_now, client_identities[c])
                                             /\ NeedsPing(identities_last_send, c, utc_now))
        pingedSet == {pinged[i] : i \in 1..Len(pinged)}
        ils1 == [c \in DOMAIN identities_last_send \cup pingedSet |->
                    IF c \in pingedSet THEN utc_now ELSE identities_last_send[c]]
        reg == RemoveClients([client_identities |-> client_identities,
                              identities_last_send |-> ils1], to_remove)
    IN
    /\ client_identities' = reg.client_identities
    /\ identities_last_send' = reg.identities_last_send
    /\ last' = [op |-> "client_periodictask", conn |-> "none", msg |-> <<>>,
                old_conn_id |-> "none",
                to_remove |-> {to_remove[i] : i \in 1..Len(to_remove)},
                sends |-> [i \in 1..Len(pinged) |->
                              Send("listen_clients.server", pinged[i],
                                   ControlMessage_msg("ping"))],
                relayed |-> <<>>, err |-> "none"]
    /\ UNCHANGED <<identities, hostname_to_conn_id, model_data, recv_at, now>>
    /\ UNCHANGED agent_vars

\* agent_periodictask, line 274: dict((v, k) for k, v in hostname_to_conn_id.items()).
\* A connection that several hostnames map to keeps the hostname the dict
\* yields last; the order of a dict is not fixed by the program, so every
\* choice is a possible reverse map.
ReverseMaps(htc) ==
    LET conns == {htc[h] : h \in DOMAIN htc} IN
    {r \in [conns -> DOMAIN htc] : \A c \in conns : htc[r[c]] = c}

\* Mutant: line 283 indented into the if of line 277.
RECURSIVE RemoveAgents_DelInsideIf(_, _, _)
RemoveAgents_DelInsideIf(reg, todo, conn_id_to_hostname_map) ==
    IF todo = <<>> THEN reg
    ELSE LET conn_id == Head(todo)
             known == conn_id \in DOMAIN conn_id_to_hostname_map
         IN RemoveAgents_DelInsideIf(
                [identities |-> IF known THEN Del(reg.identities, conn_id) ELSE reg.identities,
                 model_data |-> IF known /\ conn_id_to_hostname_map[conn_id] \in DOMAIN reg.model_data
                                THEN Del(reg.model_data, conn_id_to_hostname_map[conn_id])
                                ELSE reg.model_data],
                Tail(todo), conn_id_to_hostname_map)

\* agent_periodictask, lines 276-283: the removals, given the reverse map.
RECURSIVE RemoveAgents(_, _, _)
RemoveAgents(reg, todo, conn_id_to_hostname_map) ==
    IF todo = <<>> THEN reg
    ELSE LET conn_id == Head(todo)
             md == IF conn_id \in DOMAIN conn_id_to_hostname_map
                   THEN LET hostname == conn_id_to_hostname_map[conn_id] IN
                        IF hostname \in DOMAIN reg.model_data
                        THEN Del(reg.model_data, hostname)
                        ELSE reg.model_data
                   ELSE reg.model_data
         IN RemoveAgents([identities |-> Del(reg.identities, conn_id),
                          model_data |-> md],
                         Tail(todo), conn_id_to_hostname_map)

\* Mutant: a stale connection is deleted where the loop finds it.
AgentSweepEvents_RemoveInLoop(order, ids, utc_now) ==
    [i \in 1..Len(order) |->
        [ev |-> IF IsStale(utc_now, ids[order[i]]) THEN "del" ELSE "ping",
         conn |-> order[i]]]

\* agent_periodictask, lines 262-283: what the sweep does, in the order in
\* which it does it.  The loop over identities sends the pings and fills
\* to_remove; the deletions are made by the second loop.
AgentSweepEvents(order, ids, utc_now) ==
    LET pinged == SelectSeq(order, LAMBDA c : ~IsStale(utc_now, ids[c]))
        to_remove == SelectSeq(order, LAMBDA c : IsStale(utc_now, ids[c]))
    IN  [i \in 1..Len(pinged) |-> [ev |-> "ping", conn |-> pinged[i]]]
        \o [i \in 1..Len(to_remove) |-> [ev |-> "del", conn |-> to_remove[i]]]

\* AppCollector.agent_periodictask
agent_periodictask ==
    LET utc_now == now
        order == IterationOrder(DOMAIN identities)
        to_remove == SelectSeq(order, LAMBDA c : IsStale(utc_now, identities[c]))
        pinged == SelectSeq(order, LAMBDA c : ~IsStale(utc_now, identities[c]))
    IN
    /\ \E conn_id_to_hostname_map \in ReverseMaps(hostname_to_conn_id) :
          LET reg == IF Len(to_remove) # 0
                     THEN RemoveAgents([identities |-> identities, model_data |-> model_data],
                                       to_remove, conn_id_to_hostname_map)
                     ELSE [identities |-> identities, model_data |-> model_data]
          IN /\ identities' = reg.identities
             /\ model_data' = reg.model_data
    /\ last' = [op |-> "agent_periodictask", conn |-> "none", msg |-> <<>>,
                old_conn_id |-> "none",
                to_remove |-> {to_remove[i] : i \in 1..Len(to_remove)},
                sends |-> [i \in 1..Len(pinged) |->
                              Send("listen_agents.server", pinged[i],
                                   ControlMessage_msg("ping"))],
                relayed |-> <<>>, err |-> "none",
                events |-> AgentSweepEvents(order, identities, utc_now)]
    /\ UNCHANGED <<hostname_to_conn_id, client_identities, identities_last_send,
                   recv_at, now>>
    /\ UNCHANGED agent_vars

\* ------------------------------------------------------------------- agent
\* A PeriodicCallback: stopped, or running with the time of its next call.
Stopped == [running |-> FALSE, due |-> None]
Started(t, interval) == [running |-> TRUE, due |-> t + interval]

\* Host().hostname of the monitored machine.
AgentHostname == "h1"

\* The parameters of get_samples(self, host, metric_type='metrics') in
\* metrics.py, and those without a default.
get_samples_params == {"host", "metric_type"}
get_samples_required == {"host"}

\* The parameters of MetricsMessage.__init__(self, hostname, grid_dict).
MetricsMessage_init_params == {"hostname", "grid_dict"}

\* A Python call binds: every keyword names a parameter and every parameter
\* without a default is given.  Otherwise the call raises TypeError.
CallBinds(params, required, given) == given \subseteq params /\ required \subseteq given

\* AppAgent.send_msg(metrics_type): col.get_samples(metrics_type=metrics_type)
\* for the first collector, then MetricsMessage(hostname, grid,
\* metrics_type=metrics_type), then msg.send(self.collector_conn.client).
send_msg(metrics_type) ==
    IF ~CallBinds(get_samples_params, get_samples_required, {"metrics_type"})
    THEN [sends |-> <<>>, err |-> "TypeError"]
    ELSE IF ~CallBinds(MetricsMessage_init_params, MetricsMessage_init_params,
                       {"hostname", "grid_dict", "metrics_type"})
    THEN [sends |-> <<>>, err |-> "TypeError"]
    ELSE [sends |-> <<Send("collector_conn.client", "none",
                           <<MetricsMessage_header, AgentHostname, json_dumps(EmptyDict), metrics_type>>)>>,
          err |-> "none"]

\* The kind of the first Metrics message sent, after the sends of one handler.
FirstKind(before, sends) ==
    IF before # "none" \/ sends = <<>> THEN before
    ELSE IF sends[1].frames[1] = MetricsMessage_header THEN sends[1].frames[4]
    ELSE before

\* Mutant: the window is closed with >= instead of >.
AnswersModelRequest_AtWindow(rmr, t) ==
    rmr = None \/ (rmr # None /\ t - rmr >= model_request_window)

\* on_recv, lines 62-65: is this model request answered?
AnswersModelRequest(rmr, t) ==
    rmr = None \/ (rmr # None /\ t - rmr > model_request_window)

\* on_recv, lines 61-70: a "model" control message.
ModelRequestEffect(rmr, pm, t) ==
    IF AnswersModelRequest(rmr, t)
    THEN LET r == send_msg("model") IN
         IF r.err # "none"
         THEN [received_model_request |-> t, periodic_metrics |-> pm,
               sends |-> r.sends, err |-> r.err, answered |-> TRUE]
         ELSE [received_model_request |-> t,
               periodic_metrics |-> IF ~pm.running THEN Started(t, metrics_interval) ELSE pm,
               sends |-> r.sends, err |-> "none", answered |-> TRUE]
    ELSE [received_model_request |-> rmr,
          periodic_metrics |-> IF ~pm.running THEN Started(t, metrics_interval) ELSE pm,
          sends |-> <<>>, err |-> "none", answered |-> FALSE]

\* AgentDealerConnection.on_recv(msg)
AgentDealerEffect(msg, t) ==
    LET quiet == [received_model_request |-> received_model_request,
                  periodic_metrics |-> periodic_metrics,
                  sends |-> <<>>, err |-> "none", answered |-> FALSE]
    IN  IF msg[1] = ControlMessage_header
        THEN LET msg_obj == ControlMessage_from_msg(msg) IN
             IF ~HasAttr(msg_obj, "message")
             THEN [quiet EXCEPT !.err = "AttributeError"]
             ELSE IF msg_obj.message = "model"
             THEN ModelRequestEffect(received_model_request, periodic_metrics, t)
             ELSE quiet
        ELSE quiet

\* The frames the collector connection can deliver to the agent.
CollectorFrames ==
    {ControlMessage_msg(m) : m \in {"model", "ping"}}
    \cup {<<ControlMessage_header>>, <<"XXXX", "x">>}

AgentDealerOnRecv(msg) ==
    LET eff == AgentDealerEffect(msg, now) IN
    /\ pc = "ioloop"
    /\ last_collector_msg_on' = now
    /\ received_model_request' = eff.received_model_request
    /\ periodic_metrics' = eff.periodic_metrics
    /\ alast' = [op |-> "on_recv", msg |-> msg, sends |-> eff.sends, err |-> eff.err,
                 answered |-> eff.answered]
    /\ first_metrics_kind' = FirstKind(first_metrics_kind, eff.sends)
    /\ UNCHANGED <<periodic_stale, pc, now>>
    /\ UNCHANGED collector_vars

\* AppAgent.periodictask_send_metrics, called by the push timer
periodictask_send_metrics ==
    /\ pc = "ioloop"
    /\ periodic_metrics.running
    /\ now >= periodic_metrics.due
    /\ LET r == IF received_model_request # None
                THEN send_msg("metrics")
                ELSE [sends |-> <<>>, err |-> "none"]
       IN /\ alast' = [op |-> "periodictask_send_metrics", msg |-> <<>>,
                       sends |-> r.sends, err |-> r.err, answered |-> FALSE]
          /\ first_metrics_kind' = FirstKind(first_metrics_kind, r.sends)
    /\ periodic_metrics' = Started(now, metrics_interval)
    /\ UNCHANGED <<last_collector_msg_on, received_model_request, periodic_stale, pc, now>>
    /\ UNCHANGED collector_vars

\* periodictask_stale_connection, line 129: is the collector connection stale?
ConnectionStale(lcm, t) == lcm = None \/ t - lcm > stale_interval_timedelta

\* Mutant: the push timer is left running.
stop_KeepsPush ==
    [periodic_metrics |-> periodic_metrics, periodic_stale |-> Stopped, pc |-> "run_forever"]

\* AppAgent.stop: both timers are stopped and the event loop is left.
stop == [periodic_metrics |-> Stopped, periodic_stale |-> Stopped, pc |-> "run_forever"]

\* AppAgent.periodictask_stale_connection, called by the liveness timer
periodictask_stale_connection ==
    /\ pc = "ioloop"
    /\ periodic_stale.running
    /\ now >= periodic_stale.due
    /\ IF ConnectionStale(last_collector_msg_on, now)
       THEN /\ periodic_metrics' = stop.periodic_metrics
            /\ periodic_stale' = stop.periodic_stale
            /\ pc' = stop.pc
            /\ alast' = [op |-> "stop", msg |-> <<>>, sends |-> <<>>, err |-> "none",
                         answered |-> FALSE]
       ELSE /\ periodic_stale' = Started(now, stale_interval_timedelta)
            /\ alast' = [op |-> "periodictask_stale_connection", msg |-> <<>>,
                         sends |-> <<>>, err |-> "none", answered |-> FALSE]
            /\ UNCHANGED <<periodic_metrics, pc>>
    /\ UNCHANGED <<last_collector_msg_on, received_model_request, first_metrics_kind, now>>
    /\ UNCHANGED collector_vars

\* AppAgent.run_forever, one turn of the connection loop up to start_ioloop()
run_forever ==
    /\ pc = "run_forever"
    /\ alast' = [op |-> "run_forever", msg |-> <<>>,
                 sends |-> <<Send("collector_conn.client", "none",
                                  ControlMessage_msg("hello"))>>,
                 err |-> "none", answered |-> FALSE]
    /\ periodic_stale' = IF ~periodic_stale.running
                         THEN Started(now, stale_interval_timedelta)
                         ELSE periodic_stale
    /\ pc' = "ioloop"
    /\ UNCHANGED <<last_collector_msg_on, received_model_request, periodic_metrics,
                   first_metrics_kind, now>>
    /\ UNCHANGED collector_vars

\* ------------------------------------------------------------------- codec
ControlMessage_init_params == {"message"}
ClientMetricsMessage_init_params == {"metrics_dict"}
ClientMetricsMessage_header == "CMET"

\* The parameters of cls.__init__ besides self; none of them has a default.
InitParams(cls) ==
    CASE cls = "ControlMessage" -> ControlMessage_init_params
      [] cls = "MetricsMessage" -> MetricsMessage_init_params
      [] cls = "ClientMetricsMessage" -> ClientMetricsMessage_init_params

\* cls(**args): the object whose attributes are the arguments, or TypeError
\* when the arguments do not bind.
New(cls, args) ==
    IF CallBinds(InitParams(cls), InitParams(cls), DOMAIN args)
    THEN [obj |-> [k \in DOMAIN args \cup {"cls"} |-> IF k = "cls" THEN cls ELSE args[k]],
          err |-> "none"]
    ELSE [obj |-> NoneObj, err |-> "TypeError"]

\* ClientMetricsMessage.msg, line 54: json.dumps(self.metrics_dict.encode("utf-8")).
\* A dict has no encode (AttributeError); the bytes that a str's encode gives
\* are not JSON serializable (TypeError).  The payload is a dict.
ClientMetricsMessage_msg(obj) == [frames |-> <<>>, err |-> "AttributeError"]

\* ClientMetricsMessage.from_msg
ClientMetricsMessage_from_msg(msg) ==
    IF Len(msg) # 2 \/ msg[1] # ClientMetricsMessage_header
    THEN NoneObj
    ELSE [cls |-> "ClientMetricsMessage", metrics_dict |-> json_loads(msg[2])]

\* obj.msg
Msg(obj) ==
    CASE obj.cls = "ControlMessage" ->
             [frames |-> ControlMessage_msg(obj.message), err |-> "none"]
      [] obj.cls = "MetricsMessage" ->
             [frames |-> MetricsMessage_msg(obj), err |-> "none"]
      [] obj.cls = "ClientMetricsMessage" -> ClientMetricsMessage_msg(obj)

\* cls.from_msg(msg)
FromMsg(cls, msg) ==
    CASE cls = "ControlMessage" -> ControlMessage_from_msg(msg)
      [] cls = "MetricsMessage" -> MetricsMessage_from_msg(msg)
      [] cls = "ClientMetricsMessage" -> ClientMetricsMessage_from_msg(msg)

\* The grids and the constructor calls that are put through the codec.
CodecGrids == UNION {[ks -> 0..MaxSample] : ks \in SUBSET MetricKeys}
CodecCalls ==
    {[cls |-> "ControlMessage", args |-> [message |-> m]] :
        m \in {"hello", "model", "ping"}}
    \cup {[cls |-> "MetricsMessage", args |-> [hostname |-> h, grid_dict |-> g]] :
             h \in Hostnames, g \in CodecGrids}
    \cup {[cls |-> "MetricsMessage",
           args |-> [hostname |-> h, grid_dict |-> g, metrics_type |-> k]] :
             h \in Hostnames, g \in CodecGrids, k \in {"model", "metrics"}}
    \cup {[cls |-> "ClientMetricsMessage", args |-> [metrics_dict |-> [h \in hs |-> g]]] :
             hs \in SUBSET Hostnames, g \in CodecGrids}

CodecIdle == [stage |-> "idle", cls |-> "none", args |-> EmptyDict, obj |-> NoneObj,
              wire |-> <<>>, out |-> NoneObj, err |-> "none"]

codec_frame == <<identities, hostname_to_conn_id, model_data, client_identities,
                 identities_last_send, now, recv_at, last, last_collector_msg_on,
                 received_model_request, periodic_metrics, periodic_stale, pc, alast,
                 first_metrics_kind, periodic_agent, periodic_client, to_collector,
                 to_agent>>

\* m = cls(**args)
CodecNew(call) ==
    /\ codec.stage = "idle"
    /\ LET r == New(call.cls, call.args) IN
       codec' = [CodecIdle EXCEPT !.stage = IF r.err = "none" THEN "constructed" ELSE "raised",
                                  !.cls = call.cls, !.args = call.args,
                                  !.obj = r.obj, !.err = r.err]
    /\ UNCHANGED codec_frame

\* frames = m.msg
CodecMsg ==
    /\ codec.stage = "constructed"
    /\ LET r == Msg(codec.obj) IN
       codec' = [codec EXCEPT !.stage = IF r.err = "none" THEN "encoded" ELSE "raised",
                              !.wire = r.frames, !.err = r.err]
    /\ UNCHANGED codec_frame

\* cls.from_msg(frames)
CodecFromMsg ==
    /\ codec.stage = "encoded"
    /\ codec' = [codec EXCEPT !.stage = "decoded", !.out = FromMsg(codec.cls, codec.wire)]
    /\ UNCHANGED codec_frame

\* ------------------------------------------------------------------- clock
Tick(step) ==
    /\ now + step <= MaxTime
    /\ now' = now + step
    /\ UNCHANGED collector_vars
    /\ UNCHANGED agent_vars

Idle == [op |-> "init", conn |-> "none", msg |-> <<>>, old_conn_id |-> "none",
         to_remove |-> {}, sends |-> <<>>, relayed |-> <<>>, err |-> "none"]

AgentIdle == [op |-> "init", msg |-> <<>>, sends |-> <<>>, err |-> "none",
              answered |-> FALSE]

\* The collector after AppCollector.__init__, the agent after AppAgent.__init__
\* and setup_collector_connection.
Init ==
    /\ identities = EmptyDict
    /\ hostname_to_conn_id = EmptyDict
    /\ model_data = EmptyDict
    /\ client_identities = EmptyDict
    /\ identities_last_send = EmptyDict
    /\ now = 0
    /\ recv_at = [c \in AgentConns |-> None]
    /\ last = Idle
    /\ last_collector_msg_on = None
    /\ received_model_request = None
    /\ periodic_metrics = Stopped
    /\ periodic_stale = Stopped
    /\ pc = "run_forever"
    /\ alast = AgentIdle
    /\ first_metrics_kind = "none"
    /\ periodic_agent = Stopped
    /\ periodic_client = Stopped
    /\ to_collector = <<>>
    /\ to_agent = <<>>
    /\ codec = CodecIdle

\* ----------------------------------------------------- timers and the wire
\* The transport identity of the agent process's connection at the collector.
AgentConn == "a1"

\* The frames of the messages of sends, in order.
Frames(sends) == [i \in 1..Len(sends) |-> sends[i].frames]

\* The frames of the messages of sends that go to identity `to`.
FramesTo(sends, to) == Frames(SelectSeq(sends, LAMBDA m : m.to = to))

\* AppCollector.start: both sweeps are scheduled and the event loop starts.
start ==
    /\ ~periodic_agent.running
    /\ periodic_agent' = Started(now, agent_interval)
    /\ periodic_client' = Started(now, client_interval)
    /\ UNCHANGED <<to_collector, to_agent, codec, now>>
    /\ UNCHANGED collector_vars
    /\ UNCHANGED agent_vars

\* periodic_agent calls agent_periodictask; its pings to the agent process go
\* onto the wire.
TimedAgentSweep ==
    /\ periodic_agent.running
    /\ now >= periodic_agent.due
    /\ agent_periodictask
    /\ periodic_agent' = Started(now, agent_interval)
    /\ to_agent' = to_agent \o FramesTo(last'.sends, AgentConn)
    /\ UNCHANGED <<periodic_client, to_collector, codec>>

\* periodic_client calls client_periodictask.
TimedClientSweep ==
    /\ periodic_client.running
    /\ now >= periodic_client.due
    /\ client_periodictask
    /\ periodic_client' = Started(now, client_interval)
    /\ UNCHANGED <<periodic_agent, to_collector, to_agent, codec>>

\* The collector's agent socket hands the next frame of the agent process to
\* on_recv; what on_recv sends to that connection goes onto the wire.
SysCollectorRecv ==
    /\ periodic_agent.running
    /\ to_collector # <<>>
    /\ AgentOnRecv(AgentConn, Head(to_collector))
    /\ to_collector' = Tail(to_collector)
    /\ to_agent' = to_agent \o FramesTo(last'.sends, AgentConn)
    /\ UNCHANGED <<periodic_agent, periodic_client, codec>>

\* The agent's socket hands the next frame of the collector to on_recv.
SysAgentRecv ==
    /\ to_agent # <<>>
    /\ AgentDealerOnRecv(Head(to_agent))
    /\ to_agent' = Tail(to_agent)
    /\ to_collector' = to_collector \o Frames(alast'.sends)
    /\ UNCHANGED <<periodic_agent, periodic_client, codec>>

\* The agent's connection loop; its hello goes onto the wire.
SysRunForever ==
    /\ run_forever
    /\ to_collector' = to_collector \o Frames(alast'.sends)
    /\ UNCHANGED <<periodic_agent, periodic_client, to_agent, codec>>

\* The agent's push timer.
SysSendMetrics ==
    /\ periodictask_send_metrics
    /\ to_collector' = to_collector \o Frames(alast'.sends)
    /\ UNCHANGED <<periodic_agent, periodic_client, to_agent, codec>>

\* The agent's liveness timer.
SysStaleConnection == periodictask_stale_connection /\ UNCHANGED aux_vars

\* A Metrics frame of kind "metrics" for the agent's host reaches the
\* collector's agent socket on the agent's connection: the frame that
\* periodictask_send_metrics is written to send every metrics_interval, with
\* the kind as a fourth frame or in the three frames of MetricsMessage.msg.
StreamFrames ==
    {<<MetricsMessage_header, AgentHostname, g>> : g \in Grids}
    \cup {<<MetricsMessage_header, AgentHostname, g, "metrics">> : g \in Grids}

StreamMetrics(frames) ==
    /\ pc = "ioloop"
    /\ Len(to_collector) < MaxQueue
    /\ to_collector' = Append(to_collector, frames)
    /\ UNCHANGED <<periodic_agent, periodic_client, to_agent, codec, now>>
    /\ UNCHANGED collector_vars
    /\ UNCHANGED agent_vars

\* A timer that is running and due.
Due(timer) == timer.running /\ now >= timer.due

\* The clock moves on when the event loops have nothing to do at this
\* instant: no timer is due, no frame waits for a running event loop, and an
\* agent that has left its event loop has gone round its connection loop.
TimedTick ==
    /\ ~Due(periodic_agent)
    /\ ~Due(periodic_client)
    /\ pc = "ioloop" => (~Due(periodic_stale) /\ ~Due(periodic_metrics) /\ to_agent = <<>>)
    /\ pc = "run_forever" => alast.op = "init"
    /\ periodic_agent.running => to_collector = <<>>
    /\ Tick(TickStep)
    /\ UNCHANGED aux_vars

AgentRecv(conns, frameset) ==
    \E conn_id \in conns, frames \in frameset : AgentOnRecv(conn_id, frames)

ClientRecv(conns) ==
    \E c \in conns, frames \in ClientFrames : ClientOnRecv(c, frames)

\* The collector's event loop while agents connect and no client does.
Next ==
    \/ AgentRecv(AgentConns, AgentFrames) /\ UNCHANGED aux_vars
    \/ agent_periodictask /\ UNCHANGED aux_vars
    \/ client_periodictask /\ UNCHANGED aux_vars
    \/ Tick(TickStep) /\ UNCHANGED aux_vars

Spec == Init /\ [][Next]_vars

\* The collector's event loop while clients connect and a single agent
\* connection reports one host.
ClientNext ==
    \/ ClientRecv(ClientConns) /\ UNCHANGED aux_vars
    \/ AgentRecv({"a1"}, {<<MetricsMessage_header, "h1", json_dumps(EmptyDict)>>,
                          <<MetricsMessage_header, "h1", json_dumps(EmptyDict), "metrics">>,
                          ControlMessage_msg("hello")}) /\ UNCHANGED aux_vars
    \/ client_periodictask /\ UNCHANGED aux_vars
    \/ agent_periodictask /\ UNCHANGED aux_vars
    \/ Tick(CoarseTickStep) /\ UNCHANGED aux_vars

ClientSpec == Init /\ [][ClientNext]_vars

\* The agent's connection loop and event loop.
AgentNext ==
    \/ run_forever /\ UNCHANGED aux_vars
    \/ (\E msg \in CollectorFrames : AgentDealerOnRecv(msg)) /\ UNCHANGED aux_vars
    \/ periodictask_send_metrics /\ UNCHANGED aux_vars
    \/ periodictask_stale_connection /\ UNCHANGED aux_vars
    \/ Tick(TickStep) /\ UNCHANGED aux_vars

AgentSpec == Init /\ [][AgentNext]_vars

\* The while loop of run_forever goes on as soon as start_ioloop() returns.
AgentFairSpec == AgentSpec /\ WF_vars(run_forever /\ UNCHANGED aux_vars)

\* The collector and the agent process, joined by the agent connection.  The
\* two processes are started at any time, in any order.
SysNext ==
    \/ start
    \/ SysRunForever
    \/ SysCollectorRecv
    \/ SysAgentRecv
    \/ SysSendMetrics
    \/ SysStaleConnection
    \/ TimedAgentSweep
    \/ TimedClientSweep
    \/ TimedTick

SysSpec == Init /\ [][SysNext]_vars

\* The same, with an agent connection that streams Metrics frames of kind
\* "metrics" while the collector starts with empty registries.
StreamNext ==
    \/ start
    \/ SysRunForever
    \/ SysCollectorRecv
    \/ SysAgentRecv
    \/ SysSendMetrics
    \/ SysStaleConnection
    \/ TimedAgentSweep
    \/ TimedClientSweep
    \/ TimedTick
    \/ \E frames \in StreamFrames : StreamMetrics(frames)

StreamSpec == Init /\ [][StreamNext]_vars

\* The collector with its sweeps on their timers, while clients connect.
TimedClientNext ==
    \/ start
    \/ periodic_client.running /\ ClientRecv(ClientConns) /\ UNCHANGED aux_vars
    \/ TimedClientSweep
    \/ TimedAgentSweep
    \/ TimedTick

TimedClientSpec == Init /\ [][TimedClientNext]_vars

\* The three receive handlers side by side: the collector reads the frames of
\* one agent connection and of one client connection, the agent process reads
\* frames of the collector; the sweeps and the agent's timers run at any time.
RecvNext ==
    \/ AgentRecv({AgentConn}, {<<MetricsMessage_header, AgentHostname, json_dumps(EmptyDict)>>,
                               ControlMessage_msg("hello"), <<"XXXX", "x">>})
          /\ UNCHANGED aux_vars
    \/ ClientRecv({"c1"}) /\ UNCHANGED aux_vars
    \/ agent_periodictask /\ UNCHANGED aux_vars
    \/ client_periodictask /\ UNCHANGED aux_vars
    \/ run_forever /\ UNCHANGED aux_vars
    \/ (\E msg \in CollectorFrames : AgentDealerOnRecv(msg)) /\ UNCHANGED aux_vars
    \/ periodictask_send_metrics /\ UNCHANGED aux_vars
    \/ periodictask_stale_connection /\ UNCHANGED aux_vars
    \/ Tick(RecvTickStep) /\ UNCHANGED aux_vars

RecvSpec == Init /\ [][RecvNext]_vars

\* The collector while one agent connection reports several hostnames, with
\* Metrics messages of three frames and of four frames.
HostNext ==
    \/ AgentRecv({AgentConn},
                 {<<MetricsMessage_header, h, g>> : h \in Hostnames, g \in Grids}
                 \cup {<<MetricsMessage_header, h, g, k>> :
                          h \in Hostnames, g \in Grids, k \in {"model", "metrics"}})
          /\ UNCHANGED aux_vars
    \/ agent_periodictask /\ UNCHANGED aux_vars
    \/ Tick(CoarseTickStep) /\ UNCHANGED aux_vars

HostSpec == Init /\ [][HostNext]_vars

\* One message object at a time is built, turned into frames and read back.
CodecNext ==
    \/ \E call \in CodecCalls : CodecNew(call)
    \/ CodecMsg
    \/ CodecFromMsg

CodecSpec == Init /\ [][CodecNext]_vars

\* ================================================================== claims
\* A well-formed Metrics message for hostname h: the three frames that
\* MetricsMessage.from_msg accepts.
IsMetricsFor(frames, h) ==
    Len(frames) = 3 /\ frames[1] = MetricsMessage_header /\ frames[2] = h

\* A message with the Metrics tag for hostname h that is of kind "metrics": the
\* kind is the fourth frame, or absent (the collector takes every kind but
\* "model" for metrics data).
IsMetricsKindMetrics(frames, h) ==
    /\ Len(frames) \in {3, 4}
    /\ frames[1] = MetricsMessage_header
    /\ frames[2] = h
    /\ Len(frames) = 4 => frames[4] = "metrics"

\* This step is the agent-side receive handler, run for connection last'.conn
\* and the frames last'.msg.
AgentRecvStep == last'.op = "agent_on_recv" /\ AgentOnRecv(last'.conn, last'.msg)

\* This step is the client-side receive handler, run for last'.conn and last'.msg.
ClientRecvStep == last'.op = "client_on_recv" /\ ClientOnRecv(last'.conn, last'.msg)

\* This step is the agent's receive handler, run for the frames alast'.msg.
DealerRecvStep == alast'.op = "on_recv" /\ AgentDealerOnRecv(alast'.msg)

\* How many of the sends are the frames fr sent to peer to.
CountSends(sends, to, fr) ==
    Cardinality({i \in 1..Len(sends) : sends[i].to = to /\ sends[i].frames = fr})

C2_ColdStartRecovery ==
    [][AgentRecvStep
       => \A h \in Hostnames :
             (IsMetricsKindMetrics(last'.msg, h) /\ h \notin DOMAIN model_data)
             => (/\ CountSends(last'.sends, last'.conn, ControlMessage_msg("model")) = 1
                 /\ Len(last'.relayed) = 1)]_vars

\* ------------------------------------------------------------------------ C3
\* C3: on every Control "hello" of client c the collector sends c exactly one
\* cached model message per hostname of model_data and sets
\* identities_last_send[c].
C3_ModelBootstrap ==
    [][(ClientRecvStep /\ last'.msg = ControlMessage_msg("hello"))
       => LET c == last'.conn IN
             (/\ c \in DOMAIN identities_last_send'
              /\ identities_last_send'[c] = now
              /\ Len(last'.sends) = Cardinality(DOMAIN model_data)
              /\ \A h \in DOMAIN model_data :
                    CountSends(last'.sends, c, MetricsMessage_msg(model_data[h])) = 1)]_vars

\* ------------------------------------------------------------------------ C4
\* C4: for every Metrics message received from an agent and every client c in
\* the client identities at that moment, the handler sends the message to c
\* and sets identities_last_send[c] before anything else is processed.
C4_FanOutCompleteness ==
    [][(AgentRecvStep /\ \E h \in Hostnames : IsMetricsFor(last'.msg, h))
          => \A c \in DOMAIN client_identities :
                /\ \E i \in 1..Len(last'.sends) :
                      last'.sends[i].frames = last'.msg
                      /\ c \in {last'.sends[i].to, last'.sends[i].socket}
                /\ c \in DOMAIN identities_last_send'
                /\ identities_last_send'[c] = now]_vars

\* ------------------------------------------------------------------------ C5
\* C5: an agent connection that is in identities and whose last frame is more
\* than stale_interval old is not in identities after the agent sweep.
C5_StaleAgentEvicted ==
    [][agent_periodictask
       => \A a \in DOMAIN identities :
             (now - recv_at[a] > stale_interval) => a \notin DOMAIN identities']_vars

\* A sweep has just removed a connection silent for more than stale_interval.
C5_Witness ==
    /\ last.op = "agent_periodictask"
    /\ last.to_remove # {}
    /\ \A a \in last.to_remove :
          a \notin DOMAIN identities /\ now - recv_at[a] > stale_interval

\* ------------------------------------------------------------------------ C6
\* C6: a connection whose last frame is at most stale_interval old at a sweep
\* has an identities entry of that age and stays in identities; a connection
\* leaves identities only by a sweep that finds it silent for more than
\* stale_interval, or by a Metrics message of another connection for a
\* hostname that maps to it.
C6_LiveAgentKept ==
    [][\A a \in DOMAIN identities :
          /\ (agent_periodictask /\ now - recv_at[a] <= stale_interval)
             => (/\ now - identities[a] <= stale_interval
                 /\ a \in DOMAIN identities')
          /\ (a \notin DOMAIN identities')
             => \/ agent_periodictask /\ now - recv_at[a] > stale_interval
                \/ \E h \in Hostnames :
                      /\ AgentRecvStep
                      /\ last'.conn # a
                      /\ IsMetricsFor(last'.msg, h)
                      /\ h \in DOMAIN hostname_to_conn_id
                      /\ hostname_to_conn_id[h] = a]_vars

\* A sweep has removed one connection and kept another one whose last frame
\* is exactly stale_interval old.
C6_Witness ==
    /\ last.op = "agent_periodictask"
    /\ last.to_remove # {}
    /\ \E a \in DOMAIN identities :
          /\ now - recv_at[a] = stale_interval
          /\ identities[a] = recv_at[a]

\* ------------------------------------------------------------------------ C7
\* C7: when an agent sweep removes a stale connection p with
\* hostname_to_conn_id[h] = p, then after the sweep h is neither in
\* hostname_to_conn_id nor in model_data, p is not in identities, and the
\* sweep raised no error.
C7_AgentTimeoutCleanup ==
    [][agent_periodictask
       => \A h \in DOMAIN hostname_to_conn_id :
             LET p == hostname_to_conn_id[h] IN
             (p \in DOMAIN identities /\ now - identities[p] > stale_interval)
             => (/\ h \notin DOMAIN hostname_to_conn_id'
                 /\ h \notin DOMAIN model_data'
                 /\ p \notin DOMAIN identities'
                 /\ last'.err = "none")]_vars

\* ------------------------------------------------------------------------ C8
\* C8: a Control "model" is answered (received_model_request is set and the
\* model data is sent) only when no request was answered before or the last
\* answered one is more than model_request_window old; a request inside the
\* window sends nothing and leaves received_model_request as it is; nothing
\* but an answered request sends a Metrics message from the receive handler.
C8_ModelRequestDebounce ==
    [][DealerRecvStep
          => LET msg == alast'.msg
                 open == \/ received_model_request = None
                         \/ now - received_model_request > model_request_window
                 isModel == msg = ControlMessage_msg("model")
             IN /\ alast'.answered => (isModel /\ open /\ received_model_request' = now)
                /\ alast'.sends # <<>> => alast'.answered
                /\ (isModel /\ ~open)
                   => (/\ ~alast'.answered
                       /\ alast'.sends = <<>>
                       /\ received_model_request' = received_model_request)]_vars

\* A Control "model" has arrived exactly model_request_window after the last
\* answered one and was not answered.
C8_Witness ==
    /\ alast.op = "on_recv"
    /\ alast.msg = ControlMessage_msg("model")
    /\ ~alast.answered
    /\ received_model_request # None
    /\ now - received_model_request = model_request_window

\* ------------------------------------------------------------------------ C9
\* C9: a liveness sweep that finds no collector message at all, or the last
\* one older than stale_interval_timedelta, stops both timers and leaves the
\* event loop; the connection loop's next step sends Control "hello" and
\* starts the liveness timer; and every stale detection is followed by a hello.
C9_StaleDetectionReconnects ==
    /\ [][/\ (/\ periodictask_stale_connection
              /\ \/ last_collector_msg_on = None
                 \/ now - last_collector_msg_on > stale_interval_timedelta)
             => (/\ ~periodic_metrics'.running
                 /\ ~periodic_stale'.running
                 /\ pc' = "run_forever"
                 /\ alast'.op = "stop")
          /\ (pc = "run_forever" /\ alast' # alast)
             => (/\ alast'.sends = <<Send("collector_conn.client", "none",
                                         ControlMessage_msg("hello"))>>
                 /\ periodic_stale'.running
                 /\ pc' = "ioloop")]_vars
    /\ (alast.op = "stop") ~> (alast.op = "run_forever")

\* The agent, which had answered a model request and started its push timer,
\* has found the connection stale and stopped.
C9_Witness ==
    /\ alast.op = "stop"
    /\ received_model_request # None
    /\ last_collector_msg_on # None
    /\ now - last_collector_msg_on > stale_interval_timedelta
    /\ ~periodic_metrics.running
    /\ ~periodic_stale.running

\* ----------------------------------------------------------------------- C10
\* C10: the push timer runs only after the agent has sent a Metrics message of
\* kind "model", and the first Metrics message the agent sends is of kind
\* "model".
C10_NoMetricsBeforeModel ==
    /\ periodic_metrics.running => first_metrics_kind = "model"
    /\ first_metrics_kind \in {"none", "model"}

\* ----------------------------------------------------------------------- C11
\* C11: the agent's liveness sweep never declares the connection stale (stops
\* the timers and leaves the event loop for a new hello) while the agent is
\* registered at the running collector and has received every frame the
\* collector has sent it.
C11_NoFalseStale ==
    ~(/\ alast.op = "stop"
      /\ periodic_agent.running
      /\ AgentConn \in DOMAIN identities
      /\ last_collector_msg_on # None
      /\ to_agent = <<>>)

\* ----------------------------------------------------------------------- C12
\* C12: every client that has a last-send time is a registered client, in
\* every state; and right after a client sweep the clients it removed are in
\* neither identities nor identities_last_send.
C12_ClientRegistryInvariant ==
    /\ DOMAIN identities_last_send \subseteq DOMAIN client_identities
    /\ last.op = "client_periodictask"
       => \A c \in last.to_remove : /\ c \notin DOMAIN client_identities
                                    /\ c \notin DOMAIN identities_last_send

\* A client sweep has removed a stale client while another client, which has
\* been sent a ping, stays registered.
C12_Witness ==
    /\ last.op = "client_periodictask"
    /\ last.to_remove # {}
    /\ DOMAIN identities_last_send # {}
    /\ \E c \in DOMAIN client_identities : c \in DOMAIN identities_last_send

\* ----------------------------------------------------------------------- C17
\* A message whose tag is the tag of no variant, or whose number of frames is
\* not the one its variant's from_msg accepts.
Malformed(frames) ==
    \/ frames[1] \notin {MetricsMessage_header, ControlMessage_header}
    \/ frames[1] = MetricsMessage_header /\ MetricsMessage_from_msg(frames) = NoneObj
    \/ frames[1] = ControlMessage_header /\ ControlMessage_from_msg(frames) = NoneObj

\* C17: the agent-side receive handler of the collector, given a malformed
\* message, ends without an error, sends nothing, relays nothing and leaves
\* hostname_to_conn_id, model_data and identities_last_send as they were.
C17_MalformedDiscarded ==
    [][(AgentRecvStep /\ Malformed(last'.msg))
       => (/\ last'.err = "none"
           /\ last'.sends = <<>>
           /\ last'.relayed = <<>>
           /\ UNCHANGED <<hostname_to_conn_id, model_data, identities_last_send>>)]_vars

\* ----------------------------------------------------------------------- C18
\* C18 (I1): every hostname of hostname_to_conn_id maps to a connection that
\* is a key of identities, in every state between two handlers.
C18_AgentRegistryInvariant ==
    \A h \in DOMAIN hostname_to_conn_id : hostname_to_conn_id[h] \in DOMAIN identities

\* ----------------------------------------------------------------------- C19
\* C19: on a Control "hello" from agent connection p the collector sends one
\* message, Control "model" to p through the agent socket, records p in
\* identities with the time of the receipt, relays nothing, and leaves
\* hostname_to_conn_id, model_data and both client maps as they were.
C19_AgentHello ==
    [][(AgentRecvStep /\ last'.msg = ControlMessage_msg("hello"))
       => (/\ last'.sends = <<Send("listen_agents.server", last'.conn,
                                   ControlMessage_msg("model"))>>
           /\ identities' = Put(identities, last'.conn, now)
           /\ last'.relayed = <<>>
           /\ last'.err = "none"
           /\ UNCHANGED <<hostname_to_conn_id, model_data, client_identities,
                          identities_last_send>>)]_vars

\* The collector has answered the hello of an agent connection while a
\* hostname and a client were registered.
C19_Witness ==
    /\ last.op = "agent_on_recv"
    /\ last.msg = ControlMessage_msg("hello")
    /\ Len(last.sends) = 1
    /\ last.conn \in DOMAIN identities
    /\ DOMAIN hostname_to_conn_id # {}
    /\ DOMAIN client_identities # {}

\* ----------------------------------------------------------------------- C20
\* C20: on a Control message of another kind than "hello" from agent
\* connection p the collector sends nothing, records p in identities with the
\* time of the receipt, changes no other registry, and the handler ends
\* without an error.
C20_OtherControl ==
    [][(/\ AgentRecvStep
        /\ Len(last'.msg) = 2
        /\ last'.msg[1] = ControlMessage_header
        /\ last'.msg[2] # "hello")
       => (/\ last'.sends = <<>>
           /\ last'.err = "none"
           /\ identities' = Put(identities, last'.conn, now)
           /\ UNCHANGED <<hostname_to_conn_id, model_data, client_identities,
                          identities_last_send>>)]_vars

\* ----------------------------------------------------------------------- C13
\* C13: with the client sweep on its timer, a registered client that is not
\* stale and has been sent a message has been sent one in the last 30 s; and
\* right after a client sweep every registered client has been sent a
\* message, so that a client without one has registered since the last
\* sweep.  No agent is connected.
C13_ClientKeepaliveBound ==
    /\ \A c \in DOMAIN client_identities :
          (c \in DOMAIN identities_last_send /\ ~IsStale(now, client_identities[c]))
          => now - identities_last_send[c] <= 30
    /\ last.op = "client_periodictask"
       => DOMAIN client_identities \subseteq DOMAIN identities_last_send

\* A registered client that is not stale has been idle for longer than
\* ping_interval: the next sweep pings it.
C13_Witness ==
    /\ periodic_client.running
    /\ DOMAIN identities = {}
    /\ \E c \in DOMAIN client_identities :
          /\ c \in DOMAIN identities_last_send
          /\ ~IsStale(now, client_identities[c])
          /\ now - identities_last_send[c] > ping_interval
          /\ now >= periodic_client.due

\* ----------------------------------------------------------------------- C14
\* C14: once the agent has answered the collector's Control "model" (the reply
\* to its hello) and the running collector has read everything the agent has
\* sent, model_data holds the agent's hostname and the agent's push timer is
\* running.
C14_HandshakeCompletes ==
    (/\ alast.op = "on_recv"
     /\ alast.msg = ControlMessage_msg("model")
     /\ alast.answered
     /\ periodic_agent.running
     /\ to_collector = <<>>)
    => (/\ AgentHostname \in DOMAIN model_data
        /\ periodic_metrics.running)

\* ----------------------------------------------------------------------- C15
\* C15: a collector that has started with empty registries and reads a
\* Metrics frame of kind "metrics" for a hostname it holds no model of sends
\* Control "model" to the connection; and once the agent has answered a
\* Control "model" and the collector has read everything the agent has sent,
\* model_data holds the hostname again.
C15_RestartRecovery ==
    /\ (/\ last.op = "agent_on_recv"
        /\ IsMetricsKindMetrics(last.msg, AgentHostname)
        /\ AgentHostname \notin DOMAIN model_data)
       => CountSends(last.sends, AgentConn, ControlMessage_msg("model")) = 1
    /\ (/\ alast.op = "on_recv"
        /\ alast.answered
        /\ periodic_agent.running
        /\ to_collector = <<>>)
       => AgentHostname \in DOMAIN model_data

\* ----------------------------------------------------------------------- C16
\* C16: building a message of any variant, taking its frames and reading them
\* back raises no error and gives an object equal to the original; the frames
\* of a Metrics message are the tag, the hostname, the JSON text of the grid
\* and the kind, those of a Control message the tag and the kind.
C16_CodecRoundTrip ==
    /\ codec.stage # "raised"
    /\ codec.stage = "decoded" => codec.out = codec.obj
    /\ (codec.stage \in {"encoded", "decoded"} /\ codec.cls = "MetricsMessage")
       => (/\ "metrics_type" \in DOMAIN codec.args
           /\ codec.wire = <<MetricsMessage_header, codec.args.hostname,
                             json_dumps(codec.args.grid_dict), codec.args.metrics_type>>)
    /\ (codec.stage \in {"encoded", "decoded"} /\ codec.cls = "ControlMessage")
       => codec.wire = <<ControlMessage_header, codec.args.message>>

\* ----------------------------------------------------------------------- C21
\* A message with the Metrics tag and the frames of a Metrics message: the
\* three of MetricsMessage.msg, or those and the kind.
IsMetricsFrame(frames) ==
    /\ Len(frames) \in {3, 4}
    /\ frames[1] = MetricsMessage_header

\* C21: the agent-side receive handler has called the relay once when the
\* message it read was a Metrics message; after any other message, after a
\* client message and after a sweep the relay has not been called and no
\* message with the Metrics tag has been sent.
C21_RelayOnlyForMetrics ==
    /\ (last.op = "agent_on_recv" /\ IsMetricsFrame(last.msg))
       => Len(last.relayed) = 1
    /\ ~(last.op = "agent_on_recv" /\ IsMetricsFrame(last.msg))
       => (/\ last.relayed = <<>>
           /\ \A i \in 1..Len(last.sends) :
                 last.sends[i].frames[1] # MetricsMessage_header)

\* ----------------------------------------------------------------------- C22
\* A message with the Metrics tag for hostname h whose fourth frame is "model".
IsMetricsKindModel(frames, h) ==
    /\ Len(frames) = 4
    /\ frames[1] = MetricsMessage_header
    /\ frames[2] = h
    /\ frames[4] = "model"

\* C22: after the agent-side receive handler has read a Metrics message of
\* kind "model" for hostname h, model_data[h] is that message; a Metrics
\* message of kind "metrics" leaves model_data as it was.
C22_ModelCacheContent ==
    [][AgentRecvStep
       => \A h \in Hostnames :
             /\ IsMetricsKindModel(last'.msg, h)
                => (/\ h \in DOMAIN model_data'
                    /\ model_data'[h].hostname = h
                    /\ json_dumps(model_data'[h].grid_dict) = last'.msg[3])
             /\ IsMetricsKindMetrics(last'.msg, h)
                => UNCHANGED model_data]_vars

\* ----------------------------------------------------------------------- C23
\* C23: each of the three receive handlers records the time of the receipt
\* for the sender of every message, whatever its tag and however its dispatch
\* ends: the collector in identities for an agent connection and for a client
\* connection, the agent in last_collector_msg_on.
C23_UnconditionalTouch ==
    [][/\ AgentRecvStep
          => (/\ last'.conn \in DOMAIN identities'
              /\ identities'[last'.conn] = now)
       /\ ClientRecvStep
          => (/\ last'.conn \in DOMAIN client_identities'
              /\ client_identities'[last'.conn] = now)
       /\ DealerRecvStep
          => last_collector_msg_on' = now]_vars

\* At one instant after the start, each handler has read a message of an
\* unknown tag and has recorded the receipt.
C23_Witness ==
    /\ now > 0
    /\ last.op = "client_on_recv"
    /\ last.msg = <<"XXXX", "x">>
    /\ client_identities[last.conn] = now
    /\ alast.op = "on_recv"
    /\ alast.msg = <<"XXXX", "x">>
    /\ last_collector_msg_on = now
    /\ AgentConn \in DOMAIN identities
    /\ identities[AgentConn] = now
    /\ recv_at[AgentConn] = now

C25_AgentSweepOrder ==
    [][agent_periodictask
       => /\ \A c \in DOMAIN identities :
                LET pings == CountSends(last'.sends, c, ControlMessage_msg("ping")) IN
                IF now - identities[c] > 30
                THEN pings = 0 /\ c \notin DOMAIN identities'
                ELSE /\ pings = 1
                     /\ c \in DOMAIN identities'
                     /\ identities'[c] = identities[c]
          /\ Len(last'.sends) = Cardinality({c \in DOMAIN identities :
                                                now - identities[c] <= 30})
          /\ LET ev == last'.events IN
             /\ \A i, j \in 1..Len(ev) :
                   (ev[i].ev = "ping" /\ ev[j].ev = "del") => i < j
             /\ {ev[i].conn : i \in {k \in 1..Len(ev) : ev[k].ev = "del"}} = last'.to_remove
             /\ SelectSeq(ev, LAMBDA e : e.ev = "ping")
                   = [i \in 1..Len(last'.sends) |-> [ev |-> "ping", conn |-> last'.sends[i].to]]
       ]_vars

\* An agent sweep has pinged one connection and then removed the other.
C25_Witness ==
    /\ last.op = "agent_periodictask"
    /\ Len(last.events) = 2
    /\ last.events[1].ev = "ping"
    /\ last.events[2].ev = "del"
    /\ last.events[1].conn \in DOMAIN identities
    /\ last.events[2].conn \notin DOMAIN identities

\* ----------------------------------------------------------------------- C26
\* C26: when the agent-side receive handler reads a Metrics message while two
\* or more clients are registered, it ends without an error, a send of the
\* message to every registered client has been made, and no client and no
\* last-send time, hostname or model has been removed.
C26_FanOutErrorIsolation ==
    [][(/\ AgentRecvStep
        /\ IsMetricsFrame(last'.msg)
        /\ Cardinality(DOMAIN client_identities) >= 2)
       => (/\ last'.err = "none"
           /\ \A c \in DOMAIN client_identities :
                 \E i \in 1..Len(last'.sends) :
                    /\ last'.sends[i].frames[1] = MetricsMessage_header
                    /\ c \in {last'.sends[i].to, last'.sends[i].socket}
           /\ client_identities' = client_identities
           /\ DOMAIN identities_last_send \subseteq DOMAIN identities_last_send'
           /\ DOMAIN hostname_to_conn_id \subseteq DOMAIN hostname_to_conn_id'
           /\ DOMAIN model_data \subseteq DOMAIN model_data')]_vars

C28_ModelResentAfterReconnect ==
    [][(/\ DealerRecvStep
        /\ alast.op = "run_forever"
        /\ received_model_request # None
        /\ alast'.msg = ControlMessage_msg("model"))
          => (/\ alast'.answered
              /\ received_model_request' = now
              /\ alast'.sends = <<Send("collector_conn.client", "none",
                                       <<MetricsMessage_header, AgentHostname,
                                         json_dumps(EmptyDict), "model">>)>>)]_vars

====
